---- MODULE Spec2Model ----
(***************************************************************************)
(* Model of the bencode codec of dht/bencode/bencode.go.                   *)
(*                                                                         *)
(* A Go string is a sequence of bytes; a byte is written here as a         *)
(* one-character string, so "4:ab" is <<"4", ":", "a", "b">>.  A *Value is *)
(* either Nil or a record carrying the five fields of the Value struct.    *)
(* A Go map is a function whose domain is its key set; a nil slice or map  *)
(* is the empty sequence.  Go's int is taken to be 64 bits wide.           *)
(***************************************************************************)
EXTENDS Integers, Sequences, FiniteSets, TLC

VARIABLES op, text, value, err, rest, panicked, from, orig, origRest, lit,
          pairs, ctx, stack, pc

vars == <<op, text, value, err, rest, panicked, from, orig, origRest, lit,
          pairs, ctx, stack, pc>>

(***************************************************************************)
(* Bounds of the model.                                                    *)
(***************************************************************************)
MaxLen == 5
MaxPairs == 2
MaxElems == 2
MaxStrLen == 2
MaxNum == 11

(***************************************************************************)
(* The data model: Kind and Value.                                         *)
(***************************************************************************)
String == 0
Number == 1
Array == 2
Object == 3

Nil == [nil |-> TRUE]

Value(k, s, n, a, o) ==
    [Kind |-> k, String_ |-> s, Number |-> n, Array |-> a, Object |-> o]

Seqs(S, n) == UNION {[1..m -> S] : m \in 0..n}

Tail_(s, p) == SubSeq(s, p + 1, Len(s))

isDigit(c) == c \in {"0", "1", "2", "3", "4", "5", "6", "7", "8", "9"}

DigitVal(c) ==
    CASE c = "0" -> 0 [] c = "1" -> 1 [] c = "2" -> 2 [] c = "3" -> 3
      [] c = "4" -> 4 [] c = "5" -> 5 [] c = "6" -> 6 [] c = "7" -> 7
      [] c = "8" -> 8 [] c = "9" -> 9

DigitChar(d) == <<"0", "1", "2", "3", "4", "5", "6", "7", "8", "9">>[d + 1]

(***************************************************************************)
(* strconv.ParseInt(s, 10, 64) on a run of digits: an error on the empty   *)
(* run and on a value above 2^63 - 1, the decimal value otherwise.         *)
(***************************************************************************)
MaxInt64Digits ==
    <<"9", "2", "2", "3", "3", "7", "2", "0", "3", "6",
      "8", "5", "4", "7", "7", "5", "8", "0", "7">>

RECURSIVE StripZeros(_)
StripZeros(s) ==
    IF Len(s) > 0 /\ s[1] = "0" THEN StripZeros(Tail(s)) ELSE s

RECURSIVE DigitsGreater(_, _)
DigitsGreater(s, t) ==
    IF Len(s) = 0 THEN FALSE
    ELSE IF DigitVal(s[1]) # DigitVal(t[1])
         THEN DigitVal(s[1]) > DigitVal(t[1])
         ELSE DigitsGreater(Tail(s), Tail(t))

OutOfRange(s) ==
    LET z == StripZeros(s)
    IN  \/ Len(z) > Len(MaxInt64Digits)
        \/ Len(z) = Len(MaxInt64Digits) /\ DigitsGreater(z, MaxInt64Digits)

RECURSIVE DecimalValue(_)
DecimalValue(s) ==
    IF Len(s) = 0 THEN 0
    ELSE 10 * DecimalValue(SubSeq(s, 1, Len(s) - 1)) + DigitVal(s[Len(s)])

\* a ParseInt whose error is ignored, the zero it returns being used
ParseInt_IgnoreErr(s) ==
    [n |-> IF Len(s) = 0 \/ OutOfRange(s) THEN 0 ELSE DecimalValue(s),
     err |-> FALSE]

ParseInt(s) ==
    IF Len(s) = 0 \/ OutOfRange(s)
    THEN [n |-> 0, err |-> TRUE]
    ELSE [n |-> DecimalValue(s), err |-> FALSE]

(***************************************************************************)
(* fmt's %v of an int: the decimal digits, with a leading '-' when         *)
(* negative.                                                               *)
(***************************************************************************)
RECURSIVE FormatNat(_)
FormatNat(n) ==
    IF n < 10 THEN <<DigitChar(n)>>
    ELSE FormatNat(n \div 10) \o <<DigitChar(n % 10)>>

FormatInt(n) == IF n < 0 THEN <<"-">> \o FormatNat(0 - n) ELSE FormatNat(n)

toBencodeString(in) == FormatInt(Len(in)) \o <<":">> \o in

(***************************************************************************)
(* The decoder.  Every parse function takes the cursor ctx.b and returns   *)
(* its result together with the cursor it leaves behind.                   *)
(***************************************************************************)
\* a RemoveACharacter that lets the end of the input pass for any byte
RemoveACharacter_EOF(b, c) ==
    IF Len(b) < 1 THEN [err |-> FALSE, b |-> b]
    ELSE IF b[1] # c THEN [err |-> TRUE, b |-> b]
    ELSE [err |-> FALSE, b |-> Tail(b)]

RemoveACharacter(b, c) ==
    IF Len(b) < 1 \/ b[1] # c
    THEN [err |-> TRUE, b |-> b]
    ELSE [err |-> FALSE, b |-> Tail(b)]

PeekACharacter(b) ==
    IF Len(b) < 1
    THEN [c |-> "0", err |-> TRUE]
    ELSE [c |-> b[1], err |-> FALSE]

\* the p of the scanning loops: the length of the maximal run of digits
DigitRun(b) ==
    CHOOSE p \in 0..Len(b) :
        /\ \A i \in 1..p : isDigit(b[i])
        /\ p = Len(b) \/ ~isDigit(b[p + 1])

\* a GetString whose length check is len(ctx.b) <= Len
GetString_OffByOne(b) ==
    LET p  == DigitRun(b)
        n  == ParseInt(SubSeq(b, 1, p))
        b1 == Tail_(b, p)
        r  == RemoveACharacter(b1, ":")
    IN  IF n.err THEN [str |-> <<>>, err |-> TRUE, b |-> b]
        ELSE IF r.err THEN [str |-> <<>>, err |-> TRUE, b |-> b1]
        ELSE IF Len(r.b) <= n.n THEN [str |-> <<>>, err |-> TRUE, b |-> r.b]
        ELSE [str |-> SubSeq(r.b, 1, n.n), err |-> FALSE, b |-> Tail_(r.b, n.n)]

GetString(b) ==
    LET p  == DigitRun(b)
        n  == ParseInt(SubSeq(b, 1, p))
        b1 == Tail_(b, p)
        r  == RemoveACharacter(b1, ":")
    IN  IF n.err THEN [str |-> <<>>, err |-> TRUE, b |-> b]
        ELSE IF r.err THEN [str |-> <<>>, err |-> TRUE, b |-> b1]
        ELSE IF Len(r.b) < n.n THEN [str |-> <<>>, err |-> TRUE, b |-> r.b]
        ELSE [str |-> SubSeq(r.b, 1, n.n), err |-> FALSE, b |-> Tail_(r.b, n.n)]

ParseString(b) ==
    LET g == GetString(b)
    IN  IF g.err THEN [v |-> Nil, err |-> TRUE, b |-> g.b]
        ELSE [v |-> Value(String, g.str, 0, <<>>, <<>>), err |-> FALSE, b |-> g.b]

ParseNumber(b) ==
    LET r0 == RemoveACharacter(b, "i")
        p  == DigitRun(r0.b)
        n  == ParseInt(SubSeq(r0.b, 1, p))
        b1 == Tail_(r0.b, p)
        r1 == RemoveACharacter(b1, "e")
    IN  IF r0.err THEN [v |-> Nil, err |-> TRUE, b |-> r0.b]
        ELSE IF n.err THEN [v |-> Nil, err |-> TRUE, b |-> r0.b]
        ELSE IF r1.err THEN [v |-> Nil, err |-> TRUE, b |-> b1]
        ELSE [v |-> Value(Number, <<>>, n.n, <<>>, <<>>), err |-> FALSE, b |-> r1.b]

\* a map insertion that keeps the value of a key already present
MapSet_KeepFirst(m, k, v) ==
    [x \in (DOMAIN m) \cup {k} |-> IF x \in DOMAIN m THEN m[x] ELSE v]

\* value.Object[key] = attribute, on a map that is created when still nil
MapSet(m, k, v) ==
    [x \in (DOMAIN m) \cup {k} |-> IF x = k THEN v ELSE m[x]]

RECURSIVE ParseValue(_), ArrayLoop(_, _), ObjectLoop(_, _)

\* the for loop of ParseArray, entered with the elements appended so far
ArrayLoop(b, a) ==
    LET ele == ParseValue(b)
        a1  == Append(a, ele.v)
        r   == RemoveACharacter(ele.b, "e")
    IN  IF ele.err THEN [v |-> Nil, err |-> TRUE, b |-> ele.b]
        ELSE IF ~r.err
             THEN [v |-> Value(Array, <<>>, 0, a1, <<>>), err |-> FALSE, b |-> r.b]
             ELSE ArrayLoop(r.b, a1)

ParseArray(b) ==
    LET r == RemoveACharacter(b, "l")
    IN  IF r.err THEN [v |-> Nil, err |-> TRUE, b |-> r.b]
        ELSE ArrayLoop(r.b, <<>>)

\* the for loop of ParseObject, entered with the map filled so far
ObjectLoop(b, o) ==
    LET k         == GetString(b)
        attribute == ParseValue(k.b)
        o1        == MapSet(o, k.str, attribute.v)
        r         == RemoveACharacter(attribute.b, "e")
    IN  IF k.err THEN [v |-> Nil, err |-> TRUE, b |-> k.b]
        ELSE IF attribute.err THEN [v |-> Nil, err |-> TRUE, b |-> attribute.b]
        ELSE IF ~r.err
             THEN [v |-> Value(Object, <<>>, 0, <<>>, o1), err |-> FALSE, b |-> r.b]
             ELSE ObjectLoop(r.b, o1)

ParseObject(b) ==
    LET r == RemoveACharacter(b, "d")
    IN  IF r.err THEN [v |-> Nil, err |-> TRUE, b |-> r.b]
        ELSE ObjectLoop(r.b, <<>>)

ParseValue(b) ==
    LET c == PeekACharacter(b)
    IN  IF c.err THEN [v |-> Nil, err |-> TRUE, b |-> b]
        ELSE IF isDigit(c.c) THEN ParseString(b)
        ELSE IF c.c = "i" THEN ParseNumber(b)
        ELSE IF c.c = "l" THEN ParseArray(b)
        ELSE IF c.c = "d" THEN ParseObject(b)
        ELSE [v |-> Nil, err |-> TRUE, b |-> b]

\* a Decode that demands that the value takes up the whole input
Decode_Strict(b) ==
    LET r == ParseValue(b)
    IN  IF ~r.err /\ Len(r.b) > 0 THEN [v |-> Nil, err |-> TRUE, b |-> r.b]
        ELSE r

Decode(b) == ParseValue(b)

(***************************************************************************)
(* The encoder and the pretty-printer.  A call either returns a string or  *)
(* panics; a map is ranged over in an unspecified order, so a call has a   *)
(* set of possible outcomes.                                               *)
(***************************************************************************)
Returned(s) == [s |-> s, panic |-> FALSE]

Panicked == [s |-> <<>>, panic |-> TRUE]

\* prettify += x, where computing x may have panicked
Cat(x, y) == IF x.panic \/ y.panic THEN Panicked ELSE Returned(x.s \o y.s)

RECURSIVE Encode(_), EncodeArray(_), EncodeObject(_, _)

\* the loop over a[i], from the first remaining element on
EncodeArray(a) ==
    IF Len(a) = 0 THEN {Returned(<<>>)}
    ELSE {Cat(x, y) : x \in Encode(Head(a)), y \in EncodeArray(Tail(a))}

\* a range over the map that writes the key k itself, without its length
EncodeObject_RawKey(o, ks) ==
    IF ks = {} THEN {Returned(<<>>)}
    ELSE UNION {{Cat(Returned(k), Cat(x, y)) :
                    x \in Encode(o[k]), y \in EncodeObject(o, ks \ {k})} :
                k \in ks}

\* the range over the map o, the keys in ks still to be visited
EncodeObject(o, ks) ==
    IF ks = {} THEN {Returned(<<>>)}
    ELSE UNION {{Cat(Returned(toBencodeString(k)), Cat(x, y)) :
                    x \in Encode(o[k]), y \in EncodeObject(o, ks \ {k})} :
                k \in ks}

Encode(v) ==
    IF v = Nil THEN {Panicked}
    ELSE IF v.Kind = String THEN {Returned(toBencodeString(v.String_))}
    ELSE IF v.Kind = Number
         THEN {Returned(<<"i">> \o FormatInt(v.Number) \o <<"e">>)}
    ELSE IF v.Kind = Array
         THEN {Cat(Returned(<<"l">>), Cat(x, Returned(<<"e">>))) :
                  x \in EncodeArray(v.Array)}
    ELSE IF v.Kind = Object
         THEN {Cat(Returned(<<"d">>), Cat(x, Returned(<<"e">>))) :
                  x \in EncodeObject(v.Object, DOMAIN v.Object)}
    ELSE {Panicked}

\* the removal of a trailing comma
StripComma(s) ==
    IF Len(s) > 0 /\ s[Len(s)] = "," THEN SubSeq(s, 1, Len(s) - 1) ELSE s

Close(x, c) == IF x.panic THEN Panicked ELSE Returned(StripComma(x.s) \o <<c>>)

RECURSIVE Prettify(_), PrettifyArray(_), PrettifyObject(_, _)

PrettifyArray(a) ==
    IF Len(a) = 0 THEN {Returned(<<>>)}
    ELSE {Cat(x, Cat(Returned(<<",">>), y)) :
             x \in Prettify(Head(a)), y \in PrettifyArray(Tail(a))}

PrettifyObject(o, ks) ==
    IF ks = {} THEN {Returned(<<>>)}
    ELSE UNION {{Cat(Returned(<<"\"">> \o k \o <<"\"", ":", " ">>),
                     Cat(x, Cat(Returned(<<",">>), y))) :
                    x \in Prettify(o[k]), y \in PrettifyObject(o, ks \ {k})} :
                k \in ks}

Prettify(v) ==
    IF v = Nil THEN {Panicked}
    ELSE IF v.Kind = String
         THEN {Returned(<<"\"">> \o v.String_ \o <<"\"">>)}
    ELSE IF v.Kind = Number THEN {Returned(FormatInt(v.Number))}
    ELSE IF v.Kind = Array
         THEN {Close(Cat(Returned(<<"[">>), x), "]") :
                  x \in PrettifyArray(v.Array)}
    ELSE IF v.Kind = Object
         THEN {Close(Cat(Returned(<<"{">>), x), "}") :
                  x \in PrettifyObject(v.Object, DOMAIN v.Object)}
    ELSE {Panicked}

(***************************************************************************)
(* The constructors.  A host value of type interface{} is a record naming  *)
(* its dynamic type t and carrying its content v.                          *)
(***************************************************************************)
NewString(in) == Value(String, in, 0, <<>>, <<>>)

NewNumber(in) == Value(Number, <<>>, in, <<>>, <<>>)

Built(v) == [v |-> v, err |-> FALSE, panic |-> FALSE]

Unsupported == [v |-> Nil, err |-> TRUE, panic |-> FALSE]

AssertionPanic == [v |-> Nil, err |-> FALSE, panic |-> TRUE]

RECURSIVE NewArray(_), NewArrayLoop(_, _), NewObject(_), NewObjectLoop(_, _, _)

\* the range over the slice, from the first remaining element on
NewArrayLoop(es, newValue) ==
    IF Len(es) = 0 THEN {Built(Value(Array, <<>>, 0, newValue, <<>>))}
    ELSE LET v == Head(es)
         IN  IF v.t = "int"
             THEN NewArrayLoop(Tail(es), Append(newValue, NewNumber(v.n)))
             ELSE IF v.t = "string"
             THEN NewArrayLoop(Tail(es), Append(newValue, NewString(v.s)))
             ELSE IF v.t = "slice"
             THEN UNION {IF r.err \/ r.panic THEN {r}
                         ELSE NewArrayLoop(Tail(es), Append(newValue, r.v)) :
                         r \in NewArray(v)}
             ELSE IF v.t = "map"
             THEN UNION {IF r.err \/ r.panic THEN {r}
                         ELSE NewArrayLoop(Tail(es), Append(newValue, r.v)) :
                         r \in NewObject(v)}
             ELSE {Unsupported}

NewArray(in) ==
    IF in.t # "slice" THEN {AssertionPanic}
    ELSE NewArrayLoop(in.es, <<>>)

\* the range over the map m, the keys in ks still to be visited
NewObjectLoop(m, ks, newValue) ==
    IF ks = {} THEN {Built(Value(Object, <<>>, 0, <<>>, newValue))}
    ELSE UNION {
        LET v == m[k]
        IN  IF v.t = "int"
            THEN NewObjectLoop(m, ks \ {k}, MapSet(newValue, k, NewNumber(v.n)))
            ELSE IF v.t = "string"
            THEN NewObjectLoop(m, ks \ {k}, MapSet(newValue, k, NewString(v.s)))
            ELSE IF v.t = "slice"
            THEN UNION {IF r.err \/ r.panic THEN {r}
                        ELSE NewObjectLoop(m, ks \ {k}, MapSet(newValue, k, r.v)) :
                        r \in NewArray(v)}
            ELSE IF v.t = "map"
            THEN UNION {IF r.err \/ r.panic THEN {r}
                        ELSE NewObjectLoop(m, ks \ {k}, MapSet(newValue, k, r.v)) :
                        r \in NewObject(v)}
            ELSE {Unsupported} :
        k \in ks}

NewObject(in) ==
    IF in.t # "map" THEN {AssertionPanic}
    ELSE NewObjectLoop(in.m, DOMAIN in.m, <<>>)

(***************************************************************************)
(* The inputs of the calls.                                                *)
(***************************************************************************)
Alphabet == {"0", "1", ":", "e", "i", "l", "d", "a"}

Examples ==
    {<<"4", ":", "s", "p", "a", "m">>,
     <<"i", "-", "3", "e">>,
     <<"5", ":", "a", "b", "c">>,
     <<"l", "4", ":", "s", "p", "a", "m">>,
     <<"l", "e">>,
     <<"d", "e">>,
     <<"d", "1", ":", "a", "i", "1", "e", "1", ":", "a", "i", "2", "e", "e">>,
     <<"d", "3", ":", "c", "o", "w", "3", ":", "m", "o", "o", "4", ":", "s", "p", "a", "m", "4", ":", "e", "g", "g", "s", "e">>,
     <<"l", "l", "d", "1", ":", "a", "i", "1", "e", "e", "e", "e">>,
     <<"l", "4", ":", "s", "p", "a", "m", "i", "1", "2", "e", "e">>,
     <<"i", "9", "9", "9", "9", "9", "9", "9", "9", "9", "9", "9", "9", "9", "9", "9", "9", "9", "9", "9", "9", "e">>,
     <<"d", "1", ":", "a", "l", "1", ":", "a", "1", ":", "b", "e", "e">>,
     <<"d", "1", ":", "b", "i", "1", "e", "1", ":", "a", "d", "1", ":", "a", "i", "2", "e", "e", "e">>}

\* wire forms of dictionary keys and of complete values, with what they denote
KeyTable ==
    {[w |-> <<"1", ":", "a">>, k |-> <<"a">>],
     [w |-> <<"0", ":">>, k |-> <<>>],
     [w |-> <<"3", ":", "c", "o", "w">>, k |-> <<"c", "o", "w">>],
     [w |-> <<"4", ":", "s", "p", "a", "m">>, k |-> <<"s", "p", "a", "m">>]}

ValTable ==
    {[w |-> <<"i", "1", "e">>, v |-> NewNumber(1)],
     [w |-> <<"i", "2", "e">>, v |-> NewNumber(2)],
     [w |-> <<"4", ":", "s", "p", "a", "m">>, v |-> NewString(<<"s", "p", "a", "m">>)],
     [w |-> <<"l", "1", ":", "a", "e">>, v |-> Value(Array, <<>>, 0, <<NewString(<<"a">>)>>, <<>>)],
     [w |-> <<"d", "1", ":", "a", "i", "1", "e", "e">>,
      v |-> Value(Object, <<>>, 0, <<>>, MapSet(<<>>, <<"a">>, NewNumber(1)))]}

PairSeqs == Seqs(KeyTable \X ValTable, MaxPairs)

RECURSIVE PairsText(_)
PairsText(ps) ==
    IF Len(ps) = 0 THEN <<>>
    ELSE Head(ps)[1].w \o Head(ps)[2].w \o PairsText(Tail(ps))

DictText(ps) == <<"d">> \o PairsText(ps) \o <<"e">>

ElemSeqs == Seqs(ValTable, MaxElems)

RECURSIVE ElemsText(_)
ElemsText(es) ==
    IF Len(es) = 0 THEN <<>> ELSE Head(es).w \o ElemsText(Tail(es))

\* a list or dictionary opened, some complete members, and no closing 'e'
UntermInputs ==
    {<<"l">> \o ElemsText(es) : es \in ElemSeqs}
        \cup {<<"d">> \o PairsText(ps) : ps \in PairSeqs}

Inputs == Seqs(Alphabet, MaxLen) \cup Examples \cup UntermInputs

\* the inputs of the step-by-step runs, whose enumerated part is one shorter
StepInputs == Seqs(Alphabet, MaxLen - 1) \cup Examples \cup UntermInputs

Trailing ==
    {<<c>> : c \in Alphabet} \cup {<<"J", "U", "N", "K">>, <<"i", "1", "e">>}

Strs == Seqs({"1", ":", "e", "a"}, MaxStrLen)

Nums == (-2 .. MaxNum) \cup {1000000007}

\* host values: their dynamic type t and, by type, their content
HostInt(n) == [t |-> "int", n |-> n, s |-> <<>>, es |-> <<>>, m |-> <<>>]

HostString(s) == [t |-> "string", n |-> 0, s |-> s, es |-> <<>>, m |-> <<>>]

HostSlice(es) == [t |-> "slice", n |-> 0, s |-> <<>>, es |-> es, m |-> <<>>]

HostMap(m) == [t |-> "map", n |-> 0, s |-> <<>>, es |-> <<>>, m |-> m]

HostFloat == [t |-> "float64", n |-> 0, s |-> <<>>, es |-> <<>>, m |-> <<>>]

LitLeaves ==
    {HostInt(1), HostInt(12), HostString(<<"a">>),
     HostString(<<"1", ":">>), HostFloat}

LitKeys == {<<"a">>, <<"b">>}

Maps(K, V) == UNION {[D -> V] : D \in SUBSET K}

LitNested ==
    {HostSlice(<<>>), HostSlice(<<HostInt(1)>>), HostSlice(<<HostFloat>>),
     HostMap(<<>>), HostMap(MapSet(<<>>, <<"a">>, HostInt(1))),
     HostMap(MapSet(<<>>, <<"a">>, HostFloat))}

Lits ==
    LitLeaves
        \cup {HostSlice(es) : es \in Seqs(LitLeaves \cup LitNested, MaxElems)}
        \cup {HostMap(m) : m \in Maps(LitKeys, LitLeaves \cup LitNested)}

\* what a caller can put behind a *Value by filling the exported fields
Children == {Nil, NewString(<<"a">>), NewNumber(1), Value(4, <<>>, 0, <<>>, <<>>)}

Filled ==
    {Value(k, s, n, a, o) :
        k \in {String, Number, Array, Object, 4}, s \in {<<>>, <<"a">>},
        n \in {0, 1}, a \in Seqs(Children, 1), o \in Maps({<<"a">>}, Children)}

(***************************************************************************)
(* The calls of the public functions, each one atomic.  op names the last  *)
(* call; text, value, err, rest and panicked hold its argument and its     *)
(* outcome; orig, origRest and from remember the value, the cursor and the *)
(* call that stood before an Encode or a second Decode.                    *)
(***************************************************************************)
NoLit == [t |-> "none", n |-> 0, s |-> <<>>, es |-> <<>>, m |-> <<>>]

StepOff == ctx = <<>> /\ stack = <<>> /\ pc = "off"

Init ==
    /\ op = "idle" /\ text = <<>> /\ value = Nil /\ err = FALSE
    /\ rest = <<>> /\ panicked = FALSE /\ from = "none" /\ orig = Nil
    /\ origRest = <<>> /\ lit = NoLit /\ pairs = <<>>
    /\ StepOff

Producers == {"Decode", "NewString", "NewNumber", "NewArray", "NewObject", "Fill"}

CallDecode ==
    /\ op = "idle"
    /\ \E b \in Inputs :
          LET r == Decode(b)
          IN  text' = b /\ value' = r.v /\ err' = r.err /\ rest' = r.b
    /\ op' = "Decode"
    /\ UNCHANGED <<panicked, from, orig, origRest, lit, pairs, ctx, stack, pc>>

\* Decode of a dictionary written from the key/value pairs ps
CallDecodeDict ==
    /\ op = "idle"
    /\ \E ps \in PairSeqs \ {<<>>} :
          LET r == Decode(DictText(ps))
          IN  /\ text' = DictText(ps) /\ pairs' = ps
              /\ value' = r.v /\ err' = r.err /\ rest' = r.b
    /\ op' = "Decode"
    /\ UNCHANGED <<panicked, from, orig, origRest, lit, ctx, stack, pc>>

CallNewString ==
    /\ op = "idle"
    /\ \E s \in Strs : value' = NewString(s)
    /\ op' = "NewString"
    /\ UNCHANGED <<text, err, rest, panicked, from, orig, origRest, lit,
                   pairs, ctx, stack, pc>>

CallNewNumber ==
    /\ op = "idle"
    /\ \E n \in Nums : value' = NewNumber(n)
    /\ op' = "NewNumber"
    /\ UNCHANGED <<text, err, rest, panicked, from, orig, origRest, lit,
                   pairs, ctx, stack, pc>>

CallNewArray ==
    /\ op = "idle"
    /\ \E l \in Lits : \E r \in NewArray(l) :
          lit' = l /\ value' = r.v /\ err' = r.err /\ panicked' = r.panic
    /\ op' = "NewArray"
    /\ UNCHANGED <<text, rest, from, orig, origRest, pairs, ctx, stack, pc>>

CallNewObject ==
    /\ op = "idle"
    /\ \E l \in Lits : \E r \in NewObject(l) :
          lit' = l /\ value' = r.v /\ err' = r.err /\ panicked' = r.panic
    /\ op' = "NewObject"
    /\ UNCHANGED <<text, rest, from, orig, origRest, pairs, ctx, stack, pc>>

CallerFill ==
    /\ op = "idle"
    /\ \E v \in Filled : value' = v
    /\ op' = "Fill"
    /\ UNCHANGED <<text, err, rest, panicked, from, orig, origRest, lit,
                   pairs, ctx, stack, pc>>

HasValue == op \in Producers /\ value # Nil /\ ~err /\ ~panicked

CallEncode ==
    /\ HasValue
    /\ \E r \in Encode(value) : text' = r.s /\ panicked' = r.panic
    /\ orig' = value /\ origRest' = rest /\ from' = op
    /\ op' = "Encode"
    /\ UNCHANGED <<value, err, rest, lit, pairs, ctx, stack, pc>>

CallPrettify ==
    /\ HasValue
    /\ \E r \in Prettify(value) : text' = r.s /\ panicked' = r.panic
    /\ orig' = value /\ origRest' = rest /\ from' = op
    /\ op' = "Prettify"
    /\ UNCHANGED <<value, err, rest, lit, pairs, ctx, stack, pc>>

\* Decode of what Encode returned
DecodeEncoded ==
    /\ op = "Encode" /\ ~panicked
    /\ LET r == Decode(text)
       IN  value' = r.v /\ err' = r.err /\ rest' = r.b
    /\ op' = "Redecode"
    /\ UNCHANGED <<text, panicked, from, orig, origRest, lit, pairs, ctx, stack,
                   pc>>

\* Decode of an input that decoded, followed by further bytes
DecodeTrailing ==
    /\ op = "Decode" /\ ~err
    /\ \E t \in Trailing :
          LET r == Decode(text \o t)
          IN  text' = text \o t /\ value' = r.v /\ err' = r.err /\ rest' = r.b
    /\ orig' = value /\ origRest' = rest /\ from' = op
    /\ op' = "DecodeTrailing"
    /\ UNCHANGED <<panicked, lit, pairs, ctx, stack, pc>>

Next ==
    \/ CallDecode \/ CallDecodeDict \/ CallNewString \/ CallNewNumber \/ CallNewArray
    \/ CallNewObject \/ CallerFill \/ CallEncode \/ CallPrettify
    \/ DecodeEncoded \/ DecodeTrailing

Spec == Init /\ [][Next]_vars

(***************************************************************************)
(* One call of Decode, step by step.  ctx is the cursor ctx.b, stack holds *)
(* the activations of ParseArray and ParseObject that are waiting for      *)
(* their next member, pc is the position of the innermost activation, and  *)
(* value is the value that the last callee returned.                       *)
(***************************************************************************)
Frame(fn, a, o, k) == [fn |-> fn, arr |-> a, obj |-> o, key |-> k]

Top == stack[Len(stack)]

Pop == SubSeq(stack, 1, Len(stack) - 1)

StepInit ==
    /\ op = "Step"
    /\ text \in StepInputs
    /\ ctx = text /\ stack = <<>> /\ pc = "ParseValue"
    /\ value = Nil /\ err = FALSE /\ rest = <<>>
    /\ panicked = FALSE /\ from = "none" /\ orig = Nil /\ origRest = <<>>
    /\ lit = NoLit /\ pairs = <<>>

\* ParseValue finds no byte, or a byte that starts no value
StepDispatchError ==
    /\ pc = "ParseValue"
    /\ LET c == PeekACharacter(ctx)
       IN  c.err \/ (~isDigit(c.c) /\ c.c \notin {"i", "l", "d"})
    /\ pc' = "Fail" /\ value' = Nil
    /\ UNCHANGED <<op, text, err, rest, panicked, from, orig, origRest, lit,
                   pairs, ctx, stack>>

\* ParseValue dispatches to ParseString or ParseNumber
StepParseScalar ==
    /\ pc = "ParseValue"
    /\ ~PeekACharacter(ctx).err
    /\ LET c == PeekACharacter(ctx).c
           r == IF c = "i" THEN ParseNumber(ctx) ELSE ParseString(ctx)
       IN  /\ isDigit(c) \/ c = "i"
           /\ ctx' = r.b /\ value' = r.v
           /\ pc' = IF r.err THEN "Fail" ELSE "Return"
    /\ UNCHANGED <<op, text, err, rest, panicked, from, orig, origRest, lit,
                   pairs, stack>>

\* ParseValue dispatches to ParseArray, which removes the 'l'
StepEnterArray ==
    /\ pc = "ParseValue"
    /\ ~PeekACharacter(ctx).err /\ PeekACharacter(ctx).c = "l"
    /\ LET r == RemoveACharacter(ctx, "l")
       IN  /\ ctx' = r.b
           /\ IF r.err THEN pc' = "Fail" /\ stack' = stack
              ELSE /\ stack' = Append(stack, Frame("ParseArray", <<>>, <<>>, <<>>))
                   /\ pc' = "ParseValue"
    /\ UNCHANGED <<op, text, value, err, rest, panicked, from, orig, origRest,
                   lit, pairs>>

\* ParseValue dispatches to ParseObject, which removes the 'd'
StepEnterObject ==
    /\ pc = "ParseValue"
    /\ ~PeekACharacter(ctx).err /\ PeekACharacter(ctx).c = "d"
    /\ LET r == RemoveACharacter(ctx, "d")
       IN  /\ ctx' = r.b
           /\ IF r.err THEN pc' = "Fail" /\ stack' = stack
              ELSE /\ stack' = Append(stack, Frame("ParseObject", <<>>, <<>>, <<>>))
                   /\ pc' = "GetKey"
    /\ UNCHANGED <<op, text, value, err, rest, panicked, from, orig, origRest,
                   lit, pairs>>

\* ParseObject reads a key
StepGetKey ==
    /\ pc = "GetKey"
    /\ LET g == GetString(ctx)
       IN  /\ ctx' = g.b
           /\ IF g.err THEN pc' = "Fail" /\ value' = Nil /\ stack' = stack
              ELSE /\ stack' = Append(Pop, [Top EXCEPT !.key = g.str])
                   /\ pc' = "ParseValue" /\ value' = value
    /\ UNCHANGED <<op, text, err, rest, panicked, from, orig, origRest, lit,
                   pairs>>

\* ParseArray appends the element and looks for the closing 'e'
StepArrayAppend ==
    /\ pc = "Return" /\ Len(stack) > 0 /\ Top.fn = "ParseArray"
    /\ LET a == Append(Top.arr, value)
           r == RemoveACharacter(ctx, "e")
       IN  /\ ctx' = r.b
           /\ IF ~r.err
              THEN /\ stack' = Pop
                   /\ value' = Value(Array, <<>>, 0, a, <<>>)
                   /\ pc' = "Return"
              ELSE /\ stack' = Append(Pop, [Top EXCEPT !.arr = a])
                   /\ value' = value
                   /\ pc' = "ParseValue"
    /\ UNCHANGED <<op, text, err, rest, panicked, from, orig, origRest, lit,
                   pairs>>

\* ParseObject saves the attribute and looks for the closing 'e'
StepObjectInsert ==
    /\ pc = "Return" /\ Len(stack) > 0 /\ Top.fn = "ParseObject"
    /\ LET o == MapSet(Top.obj, Top.key, value)
           r == RemoveACharacter(ctx, "e")
       IN  /\ ctx' = r.b
           /\ IF ~r.err
              THEN /\ stack' = Pop
                   /\ value' = Value(Object, <<>>, 0, <<>>, o)
                   /\ pc' = "Return"
              ELSE /\ stack' = Append(Pop, [Top EXCEPT !.obj = o])
                   /\ value' = value
                   /\ pc' = "GetKey"
    /\ UNCHANGED <<op, text, err, rest, panicked, from, orig, origRest, lit,
                   pairs>>

\* ParseArray or ParseObject hands the error of its callee to its caller
StepUnwind ==
    /\ pc = "Fail" /\ Len(stack) > 0
    /\ stack' = Pop /\ value' = Nil
    /\ UNCHANGED <<op, text, err, rest, panicked, from, orig, origRest, lit,
                   pairs, ctx, pc>>

\* Decode returns what the outermost ParseValue returned
StepFinish ==
    /\ pc \in {"Return", "Fail"} /\ Len(stack) = 0
    /\ pc' = "done"
    /\ err' = (pc = "Fail")
    /\ rest' = ctx
    /\ UNCHANGED <<op, text, value, panicked, from, orig, origRest, lit,
                   pairs, ctx, stack>>

StepNext ==
    \/ StepDispatchError \/ StepParseScalar \/ StepEnterArray
    \/ StepEnterObject \/ StepGetKey \/ StepArrayAppend \/ StepObjectInsert
    \/ StepUnwind \/ StepFinish

\* the code is sequential and no step waits for anything
StepSpec == StepInit /\ [][StepNext]_vars /\ WF_vars(StepNext)

\* the step-by-step run and the atomic call compute the same result
StepAgrees ==
    pc = "done" =>
        /\ err = Decode(text).err
        /\ value = Decode(text).v
        /\ ~err => rest = Decode(text).b

(***************************************************************************)
(* The wire grammar, as a recogniser of the inputs that begin with a value:*)
(*   value      = bytestring / integer / list / dictionary                 *)
(*   bytestring = 1*DIGIT ":" <length raw bytes>                           *)
(*   integer    = "i" 1*DIGIT "e"                                          *)
(*   list       = "l" *value "e"                                           *)
(*   dictionary = "d" *(bytestring value) "e"                              *)
(* A length of ten or more significant digits exceeds every input here.    *)
(***************************************************************************)
NoMatch == [ok |-> FALSE, rest |-> <<>>]

Match(r) == [ok |-> TRUE, rest |-> r]

GBytestring(s) ==
    LET p == DigitRun(s)
        z == StripZeros(SubSeq(s, 1, p))
        r == Tail_(s, p + 1)
    IN  IF p = 0 \/ p = Len(s) \/ s[p + 1] # ":" \/ Len(z) > 9 THEN NoMatch
        ELSE IF DecimalValue(z) > Len(r) THEN NoMatch
        ELSE Match(Tail_(r, DecimalValue(z)))

GInteger(s) ==
    LET p == DigitRun(Tail(s))
    IN  IF p = 0 \/ p + 1 = Len(s) \/ s[p + 2] # "e" THEN NoMatch
        ELSE Match(Tail_(s, p + 2))

RECURSIVE GValue(_), GList(_), GDict(_)

GList(s) ==
    IF Len(s) = 0 THEN NoMatch
    ELSE IF s[1] = "e" THEN Match(Tail(s))
    ELSE LET m == GValue(s) IN IF m.ok THEN GList(m.rest) ELSE NoMatch

GDict(s) ==
    IF Len(s) = 0 THEN NoMatch
    ELSE IF s[1] = "e" THEN Match(Tail(s))
    ELSE LET k == GBytestring(s)
             m == GValue(k.rest)
         IN  IF k.ok /\ m.ok THEN GDict(m.rest) ELSE NoMatch

GValue(s) ==
    IF Len(s) = 0 THEN NoMatch
    ELSE IF isDigit(s[1]) THEN GBytestring(s)
    ELSE IF s[1] = "i" THEN GInteger(s)
    ELSE IF s[1] = "l" THEN GList(Tail(s))
    ELSE IF s[1] = "d" THEN GDict(Tail(s))
    ELSE NoMatch

InGrammar(s) == GValue(s).ok

EmptyList == Value(Array, <<>>, 0, <<>>, <<>>)

EmptyDict == Value(Object, <<>>, 0, <<>>, <<>>)

IsKind(v, k) == v # Nil /\ v.Kind = k

\* C1: Decode("le") succeeds with a List of zero elements, Decode("de")
\* succeeds with a Dictionary of zero entries, and Encode of an empty List
\* or Dictionary returns exactly "le" or "de".
C1_EmptyContainers ==
    /\ op = "Decode" /\ text = <<"l", "e">> =>
          ~err /\ IsKind(value, Array) /\ Len(value.Array) = 0
    /\ op = "Decode" /\ text = <<"d", "e">> =>
          ~err /\ IsKind(value, Object) /\ DOMAIN value.Object = {}
    /\ op = "Encode" /\ orig = EmptyList => ~panicked /\ text = <<"l", "e">>
    /\ op = "Encode" /\ orig = EmptyDict => ~panicked /\ text = <<"d", "e">>

IsScalar(v) == v # Nil /\ v.Kind \in {String, Number}

IsScalarList(v) ==
    /\ IsKind(v, Array)
    /\ \A i \in 1..Len(v.Array) : IsScalar(v.Array[i])

\* C2: for every sequence of scalar values, of any length including zero,
\* decoding the encoding of the List of that sequence succeeds and returns a
\* List holding the same elements in the same order.
C2_ListRoundTrip ==
    op = "Redecode" /\ IsScalarList(orig) =>
        ~err /\ IsKind(value, Array) /\ value.Array = orig.Array

\* C3: for every byte string s, decoding the encoding of NewString(s)
\* succeeds and returns the String s; for every non-negative integer n,
\* decoding the encoding of NewNumber(n) succeeds and returns the Number n.
C3_ScalarRoundTrip ==
    /\ op = "Redecode" /\ from = "NewString" =>
          ~err /\ IsKind(value, String) /\ value = orig
    /\ op = "Redecode" /\ from = "NewNumber" /\ orig.Number >= 0 =>
          ~err /\ IsKind(value, Number) /\ value = orig

C3_Witness ==
    /\ op = "Redecode" /\ from = "NewString"
    /\ orig.String_ = <<"1", ":">>
    /\ text = <<"2", ":", "1", ":">>
    /\ ~err /\ value = orig

\* C4: when Decode succeeds on w and consumes all of it, Decode of w
\* followed by any further bytes succeeds too and returns the same value.
C4_TrailingIgnored ==
    op = "DecodeTrailing" /\ origRest = <<>> => ~err /\ value = orig

C4_Witness ==
    /\ op = "DecodeTrailing" /\ origRest = <<>>
    /\ text = <<"4", ":", "s", "p", "a", "m", "J", "U", "N", "K">>
    /\ ~err /\ value = NewString(<<"s", "p", "a", "m">>)
    /\ rest = <<"J", "U", "N", "K">>

DecodeOps == {"Decode", "DecodeTrailing", "Redecode"}

\* C5: Decode rejects every input that does not begin with a value of the
\* grammar, and a rejection carries an error and a nil value, never a
\* partial value.
C5_RejectsNonGrammar ==
    op \in DecodeOps =>
        /\ ~InGrammar(text) => err
        /\ err => value = Nil

C5_Witness ==
    /\ op = "Decode" /\ text = <<"5", ":", "a", "b", "c">>
    /\ ~InGrammar(text) /\ err /\ value = Nil

\* C6: on an input that opens a list or dictionary, holds zero or more
\* complete members and ends without the closing 'e', Decode finishes after
\* finitely many steps, with an error and a nil value.
C6_UnterminatedFails ==
    (text \in UntermInputs) ~> (pc = "done" /\ err /\ value = Nil)

C6_Witness ==
    /\ pc = "done" /\ text = <<"l", "4", ":", "s", "p", "a", "m">>
    /\ text \in UntermInputs /\ err /\ value = Nil

\* the map written by inserting the pairs of ps in order
LastWins(ps) ==
    [k \in {ps[i][1].k : i \in 1..Len(ps)} |->
        LET last == CHOOSE i \in 1..Len(ps) :
                        /\ ps[i][1].k = k
                        /\ \A j \in (i + 1)..Len(ps) : ps[j][1].k # k
        IN  ps[last][2].v]

\* C7: decoding a dictionary of one or more key/value pairs yields a
\* Dictionary whose keys are exactly the keys of the input, each mapped to
\* the value of its last occurrence; neither sorted nor unique keys are
\* required.
C7_LastWriteWins ==
    /\ op = "Decode" /\ pairs # <<>> =>
          ~err /\ IsKind(value, Object) /\ value.Object = LastWins(pairs)
    /\ op = "Decode" /\ text = <<"d", "1", ":", "a", "i", "1", "e", "1", ":", "a", "i", "2", "e", "e">> =>
          ~err /\ IsKind(value, Object)
               /\ DOMAIN value.Object = {<<"a">>}
               /\ value.Object[<<"a">>] = NewNumber(2)
    /\ op = "Decode" /\ text = <<"d", "3", ":", "c", "o", "w", "3", ":", "m", "o", "o", "4", ":", "s", "p", "a", "m", "4", ":", "e", "g", "g", "s", "e">> =>
          ~err /\ IsKind(value, Object)
               /\ DOMAIN value.Object = {<<"c", "o", "w">>, <<"s", "p", "a", "m">>}
               /\ value.Object[<<"c", "o", "w">>] = NewString(<<"m", "o", "o">>)
               /\ value.Object[<<"s", "p", "a", "m">>] =
                      NewString(<<"e", "g", "g", "s">>)

C7_Witness ==
    /\ op = "Decode" /\ Len(pairs) = 2
    /\ text = <<"d", "1", ":", "a", "i", "1", "e", "1", ":", "a", "i", "2", "e", "e">>
    /\ ~err /\ value.Object[<<"a">>] = NewNumber(2)

\* C8: Encode and Prettify never panic, whatever Value they are called on.
C8_Total == op \in {"Encode", "Prettify"} => ~panicked

RECURSIVE Supported(_)
Supported(l) ==
    \/ l.t \in {"int", "string"}
    \/ l.t = "slice" /\ \A i \in 1..Len(l.es) : Supported(l.es[i])
    \/ l.t = "map" /\ \A k \in DOMAIN l.m : Supported(l.m[k])

\* C9: NewArray and NewObject never panic; they return a nil value and an
\* error when the literal holds an unsupported shape at any depth, and a
\* value and no error otherwise.
C9_UnsupportedIsError ==
    op \in {"NewArray", "NewObject"} =>
        /\ ~panicked
        /\ IF Supported(lit) THEN value # Nil /\ ~err
                             ELSE value = Nil /\ err

\* C10: for every value v that Decode returns and every order in which
\* Encode ranges over the keys of its dictionaries, decoding Encode(v)
\* succeeds and returns a value equal to v.
C10_DecodeEncodeDecode ==
    op = "Redecode" /\ from = "Decode" => ~err /\ value = orig

C10_Witness ==
    /\ op = "Redecode" /\ from = "Decode"
    /\ IsKind(orig, Object) /\ DOMAIN orig.Object = {<<"a">>, <<"b">>}
    /\ IsKind(orig.Object[<<"a">>], Object)
    /\ SubSeq(text, 1, 4) = <<"d", "1", ":", "a">>
    /\ ~err /\ value = orig

====
